---- MODULE Spec2Model ----
(***************************************************************************)
(* Model of kodiak's server health monitor                                 *)
(* (src/server/src/actor/health.rs, struct Health).                        *)
(*                                                                         *)
(* Time: an Instant is an integer number of time units since the monitor   *)
(* was created; one second is `Second` units.  A Duration is a number of   *)
(* units.  f32 arithmetic is modelled exactly: a fraction is a pair        *)
(* <<num, den>> in lowest terms, a tick period is a whole number of units, *)
(* and the comparison against 1s - period/2 is done on doubled values so   *)
(* that half a unit is exact.  Rounding of f32 is not modelled.            *)
(* usize counters never come near their width within the bounds, so        *)
(* saturating_add is +1.                                                   *)
(***************************************************************************)
EXTENDS Integers, Sequences, FiniteSets, TLC

\* Duration::from_secs(1) in time units (one unit is 0.05 s).
Second == 20

\* Health::CACHE = Duration::from_secs(30).
CACHE == 30 * Second

\* Duration::from_secs(30), the missed-tick window of record_tick.
MissedWindow == 30 * Second

\* elapsed.clamp(0.0, 10.0): the upper limit, in time units.
MaxElapsed == 10 * Second

\* ---- bounds of the model ----
\* record_tick calls per behaviour of Spec.
MaxCalls == 2
\* last instant (in seconds) of the behaviours of SpecNominal.
NominalSeconds == 62
\* last instant (in seconds) of the behaviours of SpecExport.
ExportSeconds == 31
\* last instant (in seconds) of the behaviours of SpecCadence.
CadenceSeconds == 33

VARIABLES
    tick_period,            \* G::TICK_PERIOD_SECS, in time units
    clock,                  \* the latest value Instant::now() has returned
    last,                   \* Health::last
    cpu, cpu_steal, ram, swap,
    missed_ticks,
    missed_ticks_start,
    ticks_for_missed_ticks,
    spt,
    tps,
    ticks,
    tps_start,
    panicked,               \* a call has panicked (the thread unwinds)
    call,                   \* the latest call: operation and arguments
    ret,                    \* what the latest call returned
    seen,                   \* per gauge, the value read since the latest refresh
    calls,                  \* record_tick calls made so far
    pushed,                 \* TPS samples pushed so far
    tally,                  \* sums over the samples pushed and drained so far
    probe                   \* Health::system: whether update() would succeed
                            \* now, and whether it would at the latest refresh

gauges == <<last, cpu, cpu_steal, ram, swap>>
cadence == <<missed_ticks, missed_ticks_start, ticks_for_missed_ticks,
             spt, tps, ticks, tps_start>>
history == <<call, ret, seen, calls, pushed, tally>>
vars == <<tick_period, clock, gauges, cadence, panicked, history, probe>>

\* ---- values ----
RECURSIVE GCD(_, _)
GCD(a, b) == IF b = 0 THEN a ELSE GCD(b, a % b)

\* The f32 value n/d (d > 0), as a pair in lowest terms.
Frac(n, d) ==
    LET g == GCD(IF n < 0 THEN -n ELSE n, d)
    IN  <<n \div g, d \div g>>

FracEq(f, n, d) == f[1] * d = n * f[2]
InUnit(f) == f[2] > 0 /\ 0 <= f[1] /\ f[1] <= f[2]

\* The fixed gauge values of refresh_if_necessary and of Default.
CpuFixed == Frac(15, 100)
CpuStealFixed == Frac(0, 1)
RamFixed == Frac(3, 10)
SwapFixed == Frac(0, 1)

\* ContinuousExtremaMetricAccumulator: count, min, max and total of the
\* samples pushed since it was last taken.
AccDefault == [count |-> 0, min |-> 0, max |-> 0, total |-> 0]

AccPush(a, x) ==
    IF a.count = 0
    THEN [count |-> 1, min |-> x, max |-> x, total |-> x]
    ELSE [count |-> a.count + 1,
          min |-> IF x < a.min THEN x ELSE a.min,
          max |-> IF x > a.max THEN x ELSE a.max,
          total |-> a.total + x]

\* Clamp with the lower limit forgotten (elapsed.min(10.0)).
ClampUpperOnly(x, lo, hi) == IF x > hi THEN hi ELSE x

\* f32::clamp
Clamp(x, lo, hi) == IF x < lo THEN lo ELSE IF x > hi THEN hi ELSE x

\* Instant::duration_since: saturates to zero when `earlier` is later.
DurationSince(later, earlier) == IF later >= earlier THEN later - earlier ELSE 0

\* Twice the Duration 1.0 - TICK_PERIOD_SECS * 0.5; Duration::from_secs_f32
\* panics on a negative value.
TwiceTpsThreshold(period) == 2 * Second - period
ThresholdPanics(period) == TwiceTpsThreshold(period) < 0

\* ---- record_tick ----
\* MissedRatio with the window taken to be the nominal 30 s, not the time
\* that actually elapsed.
MissedRatioFixedWindow(elapsed, completed, period) ==
    LET missed == MissedWindow - completed * period
    IN  Frac(IF missed > 0 THEN missed ELSE 0, MissedWindow)

\* MissedRatio without .max(0.0).
MissedRatioNoMax(elapsed, completed, period) ==
    Frac(elapsed - completed * period, elapsed)

\* MissedRatio divided by the completed ticks, not the scheduled ones.
MissedRatioPerCompleted(elapsed, completed, period) ==
    LET missed == elapsed - completed * period
    IN  Frac(IF missed > 0 THEN missed ELSE 0, completed * period)

\* (scheduled_ticks - completed).max(0.0) / scheduled_ticks, with
\* scheduled_ticks = elapsed * (1.0 / TICK_PERIOD_SECS).
MissedRatio(elapsed, completed, period) ==
    LET missed == elapsed - completed * period
    IN  Frac(IF missed > 0 THEN missed ELSE 0, elapsed)

\* TpsStep with a tolerance of a whole tick period (the * 0.5 forgotten).
TpsStepFullTolerance(n, acc, start, now, period) ==
    LET tps_elapsed == DurationSince(now, start)
    IN  IF tps_elapsed >= Second - period
        THEN IF tps_elapsed >= Second
             THEN [ticks |-> 0, tps |-> AccPush(acc, n + 1), tps_start |-> now]
             ELSE [ticks |-> 1, tps |-> AccPush(acc, n), tps_start |-> now]
        ELSE [ticks |-> n + 1, tps |-> acc, tps_start |-> start]

\* TpsStep with a tolerance of two tick periods (* 2.0 for * 0.5).
TpsStepTwoPeriodTolerance(n, acc, start, now, period) ==
    LET tps_elapsed == DurationSince(now, start)
    IN  IF tps_elapsed >= Second - 2 * period
        THEN IF tps_elapsed >= Second
             THEN [ticks |-> 0, tps |-> AccPush(acc, n + 1), tps_start |-> now]
             ELSE [ticks |-> 1, tps |-> AccPush(acc, n), tps_start |-> now]
        ELSE [ticks |-> n + 1, tps |-> acc, tps_start |-> start]

\* TpsStep with `self.tps_start = now` forgotten.
TpsStepKeepsStart(n, acc, start, now, period) ==
    LET tps_elapsed == DurationSince(now, start)
    IN  IF 2 * tps_elapsed >= TwiceTpsThreshold(period)
        THEN IF tps_elapsed >= Second
             THEN [ticks |-> 0, tps |-> AccPush(acc, n + 1), tps_start |-> start]
             ELSE [ticks |-> 1, tps |-> AccPush(acc, n), tps_start |-> start]
        ELSE [ticks |-> n + 1, tps |-> acc, tps_start |-> start]

\* The TPS measurement of record_tick: the new ticks, tps and tps_start.
TpsStep(n, acc, start, now, period) ==
    LET tps_elapsed == DurationSince(now, start)
    IN  IF 2 * tps_elapsed >= TwiceTpsThreshold(period)
        THEN IF tps_elapsed >= Second
             THEN [ticks |-> 0, tps |-> AccPush(acc, n + 1), tps_start |-> now]
             ELSE [ticks |-> 1, tps |-> AccPush(acc, n), tps_start |-> now]
        ELSE [ticks |-> n + 1, tps |-> acc, tps_start |-> start]

\* The missed-tick measurement of record_tick: the new missed_ticks,
\* ticks_for_missed_ticks and missed_ticks_start.  `completed` already
\* counts the current tick.
MissedStep(ratio, start, completed, now, period) ==
    LET missed_ticks_elapsed == DurationSince(now, start)
    IN  IF missed_ticks_elapsed > MissedWindow
        THEN [missed_ticks |-> MissedRatio(missed_ticks_elapsed, completed, period),
              ticks_for_missed_ticks |-> 0,
              missed_ticks_start |-> now]
        ELSE [missed_ticks |-> ratio,
              ticks_for_missed_ticks |-> completed,
              missed_ticks_start |-> start]

\* TickEffect that also stamps `last` with the tick's instant.
TickEffectTouchesLast(now, elapsed) ==
    LET completed == ticks_for_missed_ticks + 1
        t == TpsStep(ticks, tps, tps_start, now, tick_period)
        m == MissedStep(missed_ticks, missed_ticks_start, completed, now, tick_period)
    IN  [panicked |-> ThresholdPanics(tick_period),
         last |-> now, cpu |-> cpu, cpu_steal |-> cpu_steal,
         ram |-> ram, swap |-> swap,
         spt |-> AccPush(spt, Clamp(elapsed, 0, MaxElapsed)),
         ticks |-> t.ticks, tps |-> t.tps, tps_start |-> t.tps_start,
         missed_ticks |-> m.missed_ticks,
         ticks_for_missed_ticks |-> m.ticks_for_missed_ticks,
         missed_ticks_start |-> m.missed_ticks_start]

\* TickEffect that records no duration for a tick that took no time.
TickEffectSkipsIdle(now, elapsed) ==
    LET completed == ticks_for_missed_ticks + 1
        t == TpsStep(ticks, tps, tps_start, now, tick_period)
        m == MissedStep(missed_ticks, missed_ticks_start, completed, now, tick_period)
    IN  [panicked |-> ThresholdPanics(tick_period),
         last |-> last, cpu |-> cpu, cpu_steal |-> cpu_steal,
         ram |-> ram, swap |-> swap,
         spt |-> IF elapsed <= 0 THEN spt
                 ELSE AccPush(spt, Clamp(elapsed, 0, MaxElapsed)),
         ticks |-> t.ticks, tps |-> t.tps, tps_start |-> t.tps_start,
         missed_ticks |-> m.missed_ticks,
         ticks_for_missed_ticks |-> m.ticks_for_missed_ticks,
         missed_ticks_start |-> m.missed_ticks_start]

\* The Health that record_tick(now, elapsed) leaves behind, field by
\* field, and whether it panicked on the way (at from_secs_f32, after the
\* counter and the duration sample were updated).
TickEffect(now, elapsed) ==
    LET completed == ticks_for_missed_ticks + 1
        t == TpsStep(ticks, tps, tps_start, now, tick_period)
        m == MissedStep(missed_ticks, missed_ticks_start, completed, now, tick_period)
        pushed_spt == AccPush(spt, Clamp(elapsed, 0, MaxElapsed))
    IN  IF ThresholdPanics(tick_period)
        THEN [panicked |-> TRUE,
              last |-> last, cpu |-> cpu, cpu_steal |-> cpu_steal,
              ram |-> ram, swap |-> swap,
              spt |-> pushed_spt,
              ticks |-> ticks, tps |-> tps, tps_start |-> tps_start,
              missed_ticks |-> missed_ticks,
              ticks_for_missed_ticks |-> completed,
              missed_ticks_start |-> missed_ticks_start]
        ELSE [panicked |-> FALSE,
              last |-> last, cpu |-> cpu, cpu_steal |-> cpu_steal,
              ram |-> ram, swap |-> swap,
              spt |-> pushed_spt,
              ticks |-> t.ticks, tps |-> t.tps, tps_start |-> t.tps_start,
              missed_ticks |-> m.missed_ticks,
              ticks_for_missed_ticks |-> m.ticks_for_missed_ticks,
              missed_ticks_start |-> m.missed_ticks_start]

\* Health::record_tick(now, elapsed).
RecordTick(now, elapsed) ==
    LET h == TickEffect(now, elapsed)
    IN  /\ ~panicked
        /\ panicked' = h.panicked
        /\ last' = h.last
        /\ cpu' = h.cpu
        /\ cpu_steal' = h.cpu_steal
        /\ ram' = h.ram
        /\ swap' = h.swap
        /\ spt' = h.spt
        /\ ticks' = h.ticks
        /\ tps' = h.tps
        /\ tps_start' = h.tps_start
        /\ missed_ticks' = h.missed_ticks
        /\ ticks_for_missed_ticks' = h.ticks_for_missed_ticks
        /\ missed_ticks_start' = h.missed_ticks_start
        /\ UNCHANGED tick_period
        /\ call' = [op |-> "record_tick", now |-> now, elapsed |-> elapsed]
        /\ ret' = <<>>
        /\ calls' = calls + 1
        /\ pushed' = pushed + (h.tps.count - tps.count)

\* ---- gauges ----
\* refresh_if_necessary with `<` for `<=`.
RefreshIfNecessaryStrict(t, t2) ==
    IF DurationSince(t, last) < CACHE
    THEN /\ t2 = t
         /\ UNCHANGED gauges
    ELSE /\ last' = t2
         /\ cpu' = CpuFixed
         /\ cpu_steal' = CpuStealFixed
         /\ ram' = RamFixed
         /\ swap' = SwapFixed

\* refresh_if_necessary as the code in its comment (lines 136-148) has it:
\* a gauge the probe cannot report becomes unwrap_or(0.0).
RefreshIfNecessaryProbes(t, t2) ==
    IF DurationSince(t, last) <= CACHE
    THEN /\ t2 = t
         /\ UNCHANGED gauges
    ELSE /\ last' = t2
         /\ cpu' = IF probe.ok THEN CpuFixed ELSE Frac(0, 1)
         /\ cpu_steal' = IF probe.ok THEN CpuStealFixed ELSE Frac(0, 1)
         /\ ram' = IF probe.ok THEN RamFixed ELSE Frac(0, 1)
         /\ swap' = IF probe.ok THEN SwapFixed ELSE Frac(0, 1)

\* Health::refresh_if_necessary.  `t` is the Instant::now() that
\* last.elapsed() reads and `t2` the one assigned to last, the same instant
\* or the next.
RefreshIfNecessary(t, t2) ==
    IF DurationSince(t, last) <= CACHE
    THEN /\ t2 = t
         /\ UNCHANGED gauges
    ELSE /\ last' = t2
         /\ cpu' = CpuFixed
         /\ cpu_steal' = CpuStealFixed
         /\ ram' = RamFixed
         /\ swap' = SwapFixed

\* cpu() returning the wrong field.
CpuValueWrongField == missed_ticks'

\* What each accessor returns after refresh_if_necessary.
CpuValue == cpu'
CpuStealValue == cpu_steal'
RamValue == ram'
MissedTicksValue == missed_ticks'

\* A cached read: refresh if necessary, then return the field.
Read(g, value, t, t2) ==
    /\ ~panicked
    /\ t >= clock
    /\ t2 \in {t, t + 1}
    /\ UNCHANGED <<tick_period, cadence, panicked, calls, pushed>>
    /\ RefreshIfNecessary(t, t2)
    /\ clock' = t2
    /\ ret' = value
    /\ call' = [op |-> g, now |-> 0, elapsed |-> 0]

\* Health::cpu, cpu_steal, ram, missed_ticks.
CpuRead(t, t2) == Read("cpu", CpuValue, t, t2)
CpuStealRead(t, t2) == Read("cpu_steal", CpuStealValue, t, t2)
RamRead(t, t2) == Read("ram", RamValue, t, t2)
MissedTicksRead(t, t2) == Read("missed_ticks", MissedTicksValue, t, t2)

\* Health::bandwidth_rx, bandwidth_tx, connections: fixed values.
Fixed(name, value) ==
    /\ ~panicked
    /\ ret' = value
    /\ call' = [op |-> name, now |-> 0, elapsed |-> 0]
    /\ UNCHANGED <<tick_period, clock, gauges, cadence, panicked, calls, pushed>>

BandwidthRx == Fixed("bandwidth_rx", 100000000)
BandwidthTx == Fixed("bandwidth_tx", 50000000)
Connections == Fixed("connections", 100)

\* ---- drains ----
\* take_tps returning a clone (self.tps.clone()) and leaving the samples.
TakeTpsClones ==
    /\ ~panicked
    /\ ret' = tps
    /\ call' = [op |-> "take_tps", now |-> 0, elapsed |-> 0]
    /\ UNCHANGED <<tick_period, clock, gauges, cadence, panicked, calls,
                   pushed>>

\* take_spt that also restarts the open TPS counter.
TakeSptResetsTicks ==
    /\ ~panicked
    /\ ret' = spt
    /\ spt' = AccDefault
    /\ ticks' = 0
    /\ call' = [op |-> "take_spt", now |-> 0, elapsed |-> 0]
    /\ UNCHANGED <<tick_period, clock, gauges, panicked, calls, pushed,
                   missed_ticks, missed_ticks_start, ticks_for_missed_ticks,
                   tps, tps_start>>

\* Health::take_tps: mem::take(&mut self.tps).
TakeTps ==
    /\ ~panicked
    /\ ret' = tps
    /\ tps' = AccDefault
    /\ call' = [op |-> "take_tps", now |-> 0, elapsed |-> 0]
    /\ UNCHANGED <<tick_period, clock, gauges, panicked, calls, pushed,
                   missed_ticks, missed_ticks_start, ticks_for_missed_ticks,
                   spt, ticks, tps_start>>

\* Health::take_spt: mem::take(&mut self.spt).
TakeSpt ==
    /\ ~panicked
    /\ ret' = spt
    /\ spt' = AccDefault
    /\ call' = [op |-> "take_spt", now |-> 0, elapsed |-> 0]
    /\ UNCHANGED <<tick_period, clock, gauges, panicked, calls, pushed,
                   missed_ticks, missed_ticks_start, ticks_for_missed_ticks,
                   tps, ticks, tps_start>>

\* ---- construction ----
\* The gauges whose reads `seen` remembers, and "no read yet".
CachedGauges == {"cpu", "cpu_steal", "ram"}
NotSeen == [value |-> <<>>, again |-> FALSE]
\* Nothing pushed, nothing drained, no window closed, no call made.
TallyZero ==
    [tps_sum |-> 0, tps_taken |-> 0, tps_taken_sum |-> 0,
     spt_sum |-> 0, spt_taken |-> 0, spt_taken_sum |-> 0,
     closed |-> 0, since_spt |-> 0,
     last_push |-> 0 - 1, max_now |-> 0, monotone |-> TRUE]

\* Health::default() with `last` one cache interval back (now - CACHE).
DefaultCacheOnce(period) ==
    /\ tick_period = period
    /\ clock = 0
    /\ last = 0 - CACHE
    /\ cpu = CpuFixed
    /\ cpu_steal = CpuStealFixed
    /\ ram = RamFixed
    /\ swap = SwapFixed
    /\ missed_ticks = Frac(0, 1)
    /\ missed_ticks_start = 0
    /\ ticks_for_missed_ticks = 0
    /\ ticks = 0
    /\ spt = AccDefault
    /\ tps = AccDefault
    /\ tps_start = 0
    /\ panicked = FALSE
    /\ call = [op |-> "default", now |-> 0, elapsed |-> 0]
    /\ ret = <<>>
    /\ seen = [g \in CachedGauges |-> NotSeen]
    /\ calls = 0
    /\ pushed = 0
    /\ tally = TallyZero
    /\ probe = [ok |-> TRUE, at_refresh |-> "none"]

\* Health::default(), created at instant 0, for a service whose
\* TICK_PERIOD_SECS is `period`.
Default(period) ==
    /\ tick_period = period
    /\ clock = 0
    /\ last = 0 - CACHE * 2
    /\ cpu = CpuFixed
    /\ cpu_steal = CpuStealFixed
    /\ ram = RamFixed
    /\ swap = SwapFixed
    /\ missed_ticks = Frac(0, 1)
    /\ missed_ticks_start = 0
    /\ ticks_for_missed_ticks = 0
    /\ ticks = 0
    /\ spt = AccDefault
    /\ tps = AccDefault
    /\ tps_start = 0
    /\ panicked = FALSE
    /\ call = [op |-> "default", now |-> 0, elapsed |-> 0]
    /\ ret = <<>>
    /\ seen = [g \in CachedGauges |-> NotSeen]
    /\ calls = 0
    /\ pushed = 0
    /\ tally = TallyZero
    /\ probe = [ok |-> TRUE, at_refresh |-> "none"]

\* ---- any calls, any arguments ----
\* Tick periods: 0.5 s, exactly 2 s, and 2.5 s.
TickPeriods == {Second \div 2, 2 * Second, 2 * Second + Second \div 2}
\* `now` arguments of record_tick.
Times == {0, Second - Second \div 4, Second, MissedWindow + 1}
\* `elapsed` arguments of record_tick: -3 s, 0, 0.1 s, 15 s.
Elapsed == {0 - 3 * Second, 0, Second \div 10, 15 * Second}
\* Readings of Instant::now() in the accessors.
WallTimes == {0, CACHE, CACHE + 1}

Init == \E period \in TickPeriods : Default(period)

Next ==
    \/ /\ \E now \in Times, elapsed \in Elapsed :
             calls < MaxCalls /\ RecordTick(now, elapsed)
       /\ UNCHANGED <<clock, seen, tally, probe>>
    \/ /\ \E t \in WallTimes, t2 \in WallTimes :
             \/ CpuRead(t, t2)
             \/ CpuStealRead(t, t2)
             \/ RamRead(t, t2)
             \/ MissedTicksRead(t, t2)
       /\ UNCHANGED <<seen, tally, probe>>
    \/ (BandwidthRx \/ BandwidthTx \/ Connections) /\ UNCHANGED <<seen, tally, probe>>
    \/ (TakeTps \/ TakeSpt) /\ UNCHANGED <<seen, tally, probe>>

Spec == Init /\ [][Next]_vars

\* ---- the gauge cache, with what each read returned ----
\* Remember the first value the reads of gauge g returned since the latest
\* refresh, and whether g was read again since; a refresh forgets the rest.
Remember(g) ==
    seen' = [x \in CachedGauges |->
               IF last' # last
               THEN IF x = g THEN [value |-> ret', again |-> FALSE] ELSE NotSeen
               ELSE IF x # g THEN seen[x]
               ELSE IF seen[x] = NotSeen THEN [value |-> ret', again |-> FALSE]
               ELSE [value |-> seen[x].value, again |-> TRUE]]

\* `now` arguments of record_tick: creation, and just over 30 s later.
GaugeTimes == {0, MissedWindow + 1}

\* The host's probe starts or stops failing (a missing /proc file, say).
ProbeTurns ==
    /\ probe' = [probe EXCEPT !.ok = ~probe.ok]
    /\ UNCHANGED <<tick_period, clock, gauges, cadence, panicked, history>>

\* Remember how the probe stood when a read refreshed the gauges.
Probing ==
    probe' = [probe EXCEPT !.at_refresh =
                IF last' = last THEN probe.at_refresh
                ELSE IF probe.ok THEN "ok" ELSE "failing"]

NextGauges ==
    \/ /\ \E now \in GaugeTimes :
             calls < MaxCalls /\ RecordTick(now, tick_period)
       /\ UNCHANGED <<clock, seen, tally, probe>>
    \/ /\ \E t \in WallTimes, t2 \in WallTimes :
             \/ CpuRead(t, t2) /\ Remember("cpu")
             \/ CpuStealRead(t, t2) /\ Remember("cpu_steal")
             \/ RamRead(t, t2) /\ Remember("ram")
             \/ MissedTicksRead(t, t2) /\ UNCHANGED seen
       /\ Probing
       /\ UNCHANGED tally
    \/ ProbeTurns

SpecGauges == Init /\ [][NextGauges]_vars

\* ---- ticks at exactly the nominal period ----
\* Tick periods: 0.1 s, 0.2 s, 0.25 s, 0.3 s, 1 s, 1.5 s.
NominalPeriods == {Second \div 10, Second \div 5, Second \div 4,
                   (3 * Second) \div 10, Second, Second + Second \div 2}

\* The host loop calls record_tick every tick_period, with the clock's
\* reading and elapsed = tick_period; the first call is made at creation
\* or one period after it.
NominalTick(until) ==
    \E now \in (IF calls = 0 THEN {0, tick_period} ELSE {clock + tick_period}) :
        /\ now <= until
        /\ RecordTick(now, tick_period)
        /\ clock' = now
        /\ UNCHANGED <<seen, tally, probe>>

InitNominal == \E period \in NominalPeriods : Default(period)
NextNominal == NominalTick(NominalSeconds * Second)
SpecNominal == InitNominal /\ [][NextNominal]_vars

\* ---- ticks at the nominal period, with a telemetry exporter ----
\* Tick period: 0.1 s.
ExportPeriods == {Second \div 10}
InitExport == \E period \in ExportPeriods : Default(period)
NextExport ==
    \/ NominalTick(ExportSeconds * Second)
    \/ TakeTps /\ UNCHANGED <<seen, tally, probe>>
SpecExport == InitExport /\ [][NextExport]_vars

\* ---- a tick loop that stalls ----
\* Tick periods: 0.5 s, 1 s.
CadencePeriods == {Second \div 2, Second}

\* The host loop calls record_tick with the clock's reading, one period
\* after the previous call or, having stalled, two; the first call is made
\* at creation or one period after it.
CadenceTick ==
    \E now \in (IF calls = 0 THEN {0, tick_period}
                 ELSE {clock + tick_period, clock + 2 * tick_period}) :
        /\ now <= CadenceSeconds * Second
        /\ RecordTick(now, tick_period)
        /\ clock' = now
        /\ UNCHANGED <<seen, tally, probe>>

InitCadence == \E period \in CadencePeriods : Default(period)
NextCadence == CadenceTick
SpecCadence == InitCadence /\ [][NextCadence]_vars

\* ---- ticks and drains, with the sums of what was pushed and drained ----
\* What a step adds to the sums: the TPS and duration samples record_tick
\* pushed, the completed ticks a closing missed-tick window counted (the
\* counter after line 93, the current tick included), what a drain
\* returned, the record_tick calls since the latest take_spt(), the
\* instant of the latest TPS push, the largest `now` so far
\* and whether every `now` so far was at least the ones before it.
Observe ==
    LET tick == calls' = calls + 1
        now == call'.now
    IN  tally' =
          [tps_sum |-> tally.tps_sum
                         + (IF tick THEN tps'.total - tps.total ELSE 0),
           spt_sum |-> tally.spt_sum
                         + (IF tick THEN spt'.total - spt.total ELSE 0),
           closed |-> tally.closed
                         + (IF tick /\ missed_ticks_start' # missed_ticks_start
                            THEN ticks_for_missed_ticks + 1 ELSE 0),
           tps_taken |-> tally.tps_taken
                         + (IF call'.op = "take_tps" THEN ret'.count ELSE 0),
           tps_taken_sum |-> tally.tps_taken_sum
                         + (IF call'.op = "take_tps" THEN ret'.total ELSE 0),
           spt_taken |-> tally.spt_taken
                         + (IF call'.op = "take_spt" THEN ret'.count ELSE 0),
           spt_taken_sum |-> tally.spt_taken_sum
                         + (IF call'.op = "take_spt" THEN ret'.total ELSE 0),
           since_spt |-> IF call'.op = "take_spt" THEN 0
                         ELSE IF tick THEN tally.since_spt + 1
                         ELSE tally.since_spt,
           last_push |-> IF tick /\ tps'.count > tps.count
                         THEN now ELSE tally.last_push,
           max_now |-> IF tick /\ now > tally.max_now
                       THEN now ELSE tally.max_now,
           monotone |-> tally.monotone /\ (tick => now >= tally.max_now)]

NextTally ==
    \/ /\ \E now \in Times, elapsed \in Elapsed :
             calls < MaxCalls /\ RecordTick(now, elapsed)
       /\ Observe
       /\ UNCHANGED <<clock, seen, probe>>
    \/ TakeTps /\ Observe /\ UNCHANGED <<seen, probe>>
    \/ TakeSpt /\ Observe /\ UNCHANGED <<seen, probe>>

SpecTally == Init /\ [][NextTally]_vars

\* ======================= the claims =======================

\* ---- C1 ----
FloorTps == Second \div tick_period
CeilTps == (Second + tick_period - 1) \div tick_period
OneSamplePerSecond ==
    /\ tps.count = clock \div Second
    /\ tps.count > 0 => tps.min >= FloorTps - 1 /\ tps.max <= CeilTps + 1

\* C1 as stated: with record_tick called at exactly the nominal tick period,
\* whatever the period, each full second since creation has added exactly
\* one TPS sample, and every sample is within 1 of the calls made in a second.
C1_Original == OneSamplePerSecond

\* C1 (amended): the same, when one second is a whole number of tick periods.
C1_OneSamplePerSecond == Second % tick_period = 0 => OneSamplePerSecond

\* Three seconds of 0.1 s ticks have left three samples of 10.
C1_Witness ==
    /\ tick_period * 10 = Second
    /\ clock = 3 * Second
    /\ tps.count = 3
    /\ tps.min = 10

\* ---- C2 ----
WindowCloses == missed_ticks_start' # missed_ticks_start

\* C2 as stated: when the missed-tick window closes with M calls counted, the
\* ratio becomes (N - M) / N for M < N and 0 for M >= N, with N the ticks
\* expected in 30 s.
C2_Original ==
    [][WindowCloses =>
          LET N == MissedWindow \div tick_period
              M == ticks_for_missed_ticks + 1
          IN  IF M < N THEN FracEq(missed_ticks', N - M, N)
                       ELSE FracEq(missed_ticks', 0, 1)]_vars

\* C2 (amended): the window closes after more than 30 s, and the ratio becomes
\* max(0, S - M) / S with S the ticks expected in the time the window actually
\* lasted, and M the calls counted, the closing one included.
C2_RatioOverActualWindow ==
    [][WindowCloses =>
          LET lasted == call'.now - missed_ticks_start
              M == ticks_for_missed_ticks + 1
              missed == lasted - M * tick_period
          IN  /\ lasted > MissedWindow
              /\ FracEq(missed_ticks', IF missed > 0 THEN missed ELSE 0, lasted)]_vars

\* A window has just closed with ticks missing.
C2_Witness ==
    /\ call.op = "record_tick"
    /\ missed_ticks_start = call.now
    /\ call.now > MissedWindow
    /\ missed_ticks[1] > 0

\* ---- C3 ----
ReadOps == {"cpu", "cpu_steal", "ram", "missed_ticks",
            "bandwidth_rx", "bandwidth_tx", "connections"}

\* C3: a read accessor leaves the tick-cadence state unchanged, and
\* record_tick leaves the cached gauge state unchanged.
C3_Frames ==
    [][/\ call'.op \in ReadOps => UNCHANGED cadence
       /\ call'.op = "record_tick" => UNCHANGED gauges]_vars

\* A read has refreshed the gauges in the middle of a window with ticks in it.
C3_Witness ==
    /\ call.op \in ReadOps
    /\ last = clock
    /\ last > 0
    /\ ticks_for_missed_ticks > 0
    /\ spt.count > 0

\* ---- C4 ----
CachedOps == {"cpu", "cpu_steal", "ram", "missed_ticks"}

\* C4: a refresh comes more than 30 s after the one before it, and a cached
\* read made when now - last <= 30 s changes nothing.
C4_RefreshRate ==
    [][/\ last' # last => last' - last > CACHE
       /\ (call'.op \in CachedOps /\ clock' - last <= CACHE) =>
              UNCHANGED <<tick_period, gauges, cadence, panicked>>]_vars

\* A cached read exactly 30 s after the refresh.
C4_Witness ==
    /\ call.op \in CachedOps
    /\ last = 0
    /\ clock = CACHE

\* ---- C5 ----
\* C5: a read of cpu, cpu_steal or ram returns what the first read of that
\* gauge since the latest refresh returned.
C5_SameWithinWindow ==
    \A g \in CachedGauges : call.op = g => ret = seen[g].value

\* cpu was read again, later in the window, after ticks were recorded.
C5_Witness ==
    /\ call.op = "cpu"
    /\ seen["cpu"].again
    /\ clock > last
    /\ calls > 0

\* ---- C6 ----
ScenarioDrained ==
    /\ tick_period * 10 = Second
    /\ calls = 300
    /\ call.op = "take_tps"
    /\ ret.count = pushed

\* C6 as stated: after 300 calls 0.1 s apart, take_tps() returns three
\* samples of about 10.
C6_Original ==
    ScenarioDrained => ret.count = 3 /\ ret.min >= 9 /\ ret.max <= 11

\* C6 (amended): it returns one sample per full second, thirty of them
\* (twenty-nine when the first call was made at creation), each about 10.
C6_ThirtySamples ==
    ScenarioDrained =>
        /\ ret.count = IF clock = 30 * Second THEN 30 ELSE 29
        /\ ret.min >= 9
        /\ ret.max <= 11

\* The drain after the 300th call returned thirty samples.
C6_Witness == ScenarioDrained /\ ret.count = 30

\* ---- C7 ----
\* C7: with record_tick called at exactly the nominal tick period, the
\* missed-tick ratio is 0 after every window close.
C7_NoMissedTicks == missed_ticks_start > 0 => FracEq(missed_ticks, 0, 1)

\* The second window has closed, with 0.1 s ticks.
C7_Witness ==
    /\ tick_period * 10 = Second
    /\ missed_ticks_start > 2 * MissedWindow

C10_Original ==
    [][/\ missed_ticks_start' >= missed_ticks_start
       /\ tps_start' >= tps_start]_vars

\* ---- C11 ----
\* C11: every tick is counted in exactly one TPS window and one missed-tick
\* window: after any record_tick calls, the TPS samples pushed so far and
\* the open TPS counter sum to the number of calls made, and so do the
\* completed-tick counts of the missed-tick windows closed so far and the
\* open missed-tick counter.
C11_Original ==
    /\ tally.tps_sum + ticks = calls
    /\ tally.closed + ticks_for_missed_ticks = calls

\* ---- C12 ----
\* Every sample pushed so far is in a summary a drain returned or still in
\* its accumulator, by count and by sum.
NothingLostOrTwice ==
    /\ pushed = tally.tps_taken + tps.count
    /\ tally.tps_sum = tally.tps_taken_sum + tps.total
    /\ calls = tally.spt_taken + spt.count
    /\ tally.spt_sum = tally.spt_taken_sum + spt.total

\* C12: take_tps() and take_spt() return the whole accumulator and leave it
\* empty; only record_tick and its own drain change an accumulator, so a
\* second drain with no record_tick in between returns the empty summary;
\* and no sample is returned by two drains or lost.
C12_Drains ==
    [][/\ call'.op = "take_tps" => ret' = tps /\ tps' = AccDefault
       /\ call'.op = "take_spt" => ret' = spt /\ spt' = AccDefault
       /\ tps' # tps => call'.op \in {"record_tick", "take_tps"}
       /\ spt' # spt => call'.op \in {"record_tick", "take_spt"}
       /\ call.op = "take_tps" /\ call'.op = "take_tps" => ret' = AccDefault
       /\ call.op = "take_spt" /\ call'.op = "take_spt" => ret' = AccDefault
       /\ NothingLostOrTwice']_vars

\* A drain has returned TPS samples, another has returned duration samples,
\* and a later take_tps() returns the empty summary.
C12_Witness ==
    /\ tally.tps_taken > 0
    /\ tally.spt_taken > 0
    /\ call.op = "take_tps"
    /\ ret = AccDefault

\* ---- C13 ----
\* C13: whatever the tick period (> 0) and the `now` and `elapsed` values,
\* no record_tick call panics or divides by zero: the threshold
\* 1 s - tick_period / 2 of a call is a non-negative duration, and a ratio
\* that was computed has a positive divisor.
C13_Original ==
    /\ ~panicked
    /\ calls > 0 => TwiceTpsThreshold(tick_period) >= 0
    /\ missed_ticks[2] > 0

\* ---- C14 ----
\* The field the accessor just called reads, as the call leaves it.
FieldRead ==
    CASE call'.op = "cpu" -> cpu'
      [] call'.op = "cpu_steal" -> cpu_steal'
      [] call'.op = "ram" -> ram'
      [] call'.op = "missed_ticks" -> missed_ticks'

C15_FirstReadRefreshes ==
    [][/\ call.op = "default" =>
            /\ DurationSince(clock, last) > CACHE
            /\ ticks = 0 /\ ticks_for_missed_ticks = 0
            /\ tps = AccDefault /\ spt = AccDefault
       /\ last < 0 /\ call'.op \in CachedOps =>
            last' = clock' /\ last' >= 0]_vars

\* After a tick, the first accessor call, 30 s after creation, has
\* refreshed (a refresh at 30 s can only be the first).
C15_Witness ==
    /\ calls > 0
    /\ call.op = "cpu_steal"
    /\ clock = CACHE
    /\ last = clock

\* ---- C16 ----
\* The TPS step as the claim has it, for a call at `now` with
\* w = now - tps_start and p = tick_period.
TpsStepAsStated(now) ==
    LET w == now - tps_start
    IN  /\ w >= Second =>
            /\ tps' = AccPush(tps, ticks + 1)
            /\ ticks' = 0
            /\ tps_start' = now
        /\ 2 * w >= 2 * Second - tick_period /\ w < Second =>
            /\ tps' = AccPush(tps, ticks)
            /\ ticks' = 1
            /\ tps_start' = now
        /\ 2 * w < 2 * Second - tick_period =>
            /\ tps' = tps
            /\ ticks' = ticks + 1
            /\ tps_start' = tps_start

\* C16: in every record_tick call, if w >= 1 s the call pushes the counter
\* plus 1 and resets the counter to 0; if 1 s - p/2 <= w < 1 s it pushes
\* the counter as it is and resets it to 1; in both cases tps_start
\* becomes now; if w < 1 s - p/2 it only adds 1 to the counter.
C16_Original == [][calls' = calls + 1 => TpsStepAsStated(call'.now)]_vars

\* ---- C17 ----
\* The missed-tick step as the claim has it, for a call at `now`: with
\* e = now - missed_ticks_start, scheduled = e / tick_period and
\* completed = the counter with this tick, the ratio
\* max(0, scheduled - completed) / scheduled is
\* max(0, e - completed * tick_period) / e.
MissedStepAsStated(now) ==
    LET e == now - missed_ticks_start
        completed == ticks_for_missed_ticks + 1
        missing == e - completed * tick_period
    IN  IF e > MissedWindow
        THEN /\ missed_ticks' = Frac(IF missing > 0 THEN missing ELSE 0, e)
             /\ ticks_for_missed_ticks' = 0
             /\ missed_ticks_start' = now
        ELSE /\ missed_ticks' = missed_ticks
             /\ missed_ticks_start' = missed_ticks_start
             /\ ticks_for_missed_ticks' = ticks_for_missed_ticks + 1

\* C17: a record_tick call with now - missed_ticks_start above 30 s closes
\* the missed-tick window: it stores the ratio, resets the counter to 0 and
\* sets the start to now; every other call, one at exactly 30 s included,
\* leaves the ratio and the start as they are and adds 1 to the counter.
C17_Original == [][calls' = calls + 1 => MissedStepAsStated(call'.now)]_vars

\* ---- C18 ----
\* C18: every record_tick call adds exactly one sample to spt, whatever its
\* arguments and whichever window closes; so spt holds, and take_spt()
\* returns, as many samples as record_tick calls were made since the
\* previous take_spt() (or since creation).
C18_OneSamplePerCall ==
    [][/\ calls' = calls + 1 => spt'.count = spt.count + 1
       /\ call'.op = "take_spt" => ret'.count = tally.since_spt
       /\ spt'.count = tally'.since_spt]_vars

\* After a tick and a first take_spt(), a tick that closed the missed-tick
\* window (its elapsed 0 or negative); take_spt() then returns that one
\* sample.
C18_Witness ==
    /\ call.op = "take_spt"
    /\ ret.count = 1
    /\ ret.max = 0
    /\ tally.spt_taken = 2
    /\ missed_ticks_start > 0

\* ---- C19 ----
\* C19: a record_tick call pushes at most one TPS sample; and while the
\* `now` values have never decreased, a sample is pushed at least
\* 1 s - tick_period / 2 after the sample before it.  (So a call that ends
\* a stall of many seconds adds one sample for the whole stall.)
C19_SampleSpacing ==
    [][calls' = calls + 1 =>
         /\ tps'.count \in {tps.count, tps.count + 1}
         /\ tally'.monotone /\ tps'.count > tps.count /\ tally.last_push >= 0 =>
              2 * (call'.now - tally.last_push) >= 2 * Second - tick_period]_vars

\* With 0.5 s ticks: a sample was pushed at 0.75 s or 1 s, and the next
\* call, after a stall until 30.05 s, has pushed the second sample.
C19_Witness ==
    /\ tick_period * 2 = Second
    /\ tally.monotone
    /\ call.op = "record_tick"
    /\ call.now = MissedWindow + 1
    /\ tally.last_push = call.now
    /\ pushed = 2
    /\ calls = 2

\* ---- C20 ----
\* C20: take_tps() changes only tps and take_spt() changes only spt: the
\* open TPS counter, both window starts, the missed-tick counter and
\* ratio, the other accumulator and the cached gauges stay as they were.
C20_DrainFrames ==
    [][/\ call'.op = "take_tps" =>
            UNCHANGED <<ticks, tps_start, missed_ticks_start,
                        ticks_for_missed_ticks, missed_ticks, spt, gauges>>
       /\ call'.op = "take_spt" =>
            UNCHANGED <<ticks, tps_start, missed_ticks_start,
                        ticks_for_missed_ticks, missed_ticks, tps, gauges>>]_vars

\* take_spt() has drained a duration sample in the middle of a TPS window
\* (the open counter is 1) and after a TPS sample was pushed.
C20_Witness ==
    /\ call.op = "take_spt"
    /\ ret.count > 0
    /\ spt = AccDefault
    /\ ticks = 1
    /\ tps.count = 1
====
